---- MODULE Spec2Model ----
(***************************************************************************)
(* Model of the OpenPnP nozzle-control web server script, in its two       *)
(* versions: samples/scripts/WebServer.js (0.1.1) and the 0.2.1 revision   *)
(* with the QR-code dialog.  Each run of the script is an instance with    *)
(* its own globals (server, isFirstConnection, qrDialogFrame); all         *)
(* instances share the one TCP port.                                       *)
(*                                                                         *)
(* JavaScript strings are sequences of one-character strings, so that      *)
(* split, toLowerCase and parseFloat are computed character by character.  *)
(***************************************************************************)
EXTENDS Integers, Sequences, FiniteSets, TLC

----------------------------------------------------------------------------
(* Bounds of the model *)

\* number of times the script is run
NInst == 2

\* the calls of closeQRCodeDialog are counted up to this number
MaxCloseCalls == 2

----------------------------------------------------------------------------
(* JavaScript values *)

Undefined == [t |-> "undefined"]
Null == [t |-> "null"]
Str(s) == [t |-> "string", v |-> s]

NaN == [t |-> "NaN"]
Infinity(neg) == [t |-> "Infinity", neg |-> neg]
\* the finite number (-1)^neg * n / 10^k, n without trailing zeros when k > 0
Num(neg, n, k) == [t |-> "number", neg |-> neg, n |-> n, k |-> k]

UpperChars == <<"A","B","C","D","E","F","G","H","I","J","K","L","M",
                "N","O","P","Q","R","S","T","U","V","W","X","Y","Z">>
LowerChars == <<"a","b","c","d","e","f","g","h","i","j","k","l","m",
                "n","o","p","q","r","s","t","u","v","w","x","y","z">>
DigitChars == <<"0","1","2","3","4","5","6","7","8","9">>
WhiteSpaceChars == {" ", "\t", "\n", "\r"}

Chars == STRING
JSString == Seq(Chars)

IsDigit(c) == \E d \in 1..10 : DigitChars[d] = c
DigitVal(c) == (CHOOSE d \in 1..10 : DigitChars[d] = c) - 1

\* String.prototype.toLowerCase
ToLowerChar(c) ==
    IF \E k \in 1..26 : UpperChars[k] = c
    THEN LowerChars[CHOOSE k \in 1..26 : UpperChars[k] = c]
    ELSE c
toLowerCase[s \in JSString] == [k \in 1..Len(s) |-> ToLowerChar(s[k])]

Drop(s, n) == IF n >= Len(s) THEN <<>> ELSE SubSeq(s, n + 1, Len(s))
Take(s, n) == IF n >= Len(s) THEN s ELSE SubSeq(s, 1, n)
startsWith(s, p) == Len(p) <= Len(s) /\ Take(s, Len(p)) = p

\* the index of the first sep in s, 0 when there is none
IndexOf[s \in JSString, sep \in Chars] ==
    IF \E k \in 1..Len(s) : s[k] = sep
    THEN CHOOSE j \in 1..Len(s) : s[j] = sep /\ \A m \in 1..(j - 1) : s[m] # sep
    ELSE 0

\* String.prototype.split with a one-character separator: the list of the
\* pieces between the separators, empty pieces included
split[s \in JSString, sep \in Chars] ==
    IF IndexOf[s, sep] = 0 THEN <<s>>
    ELSE <<Take(s, IndexOf[s, sep] - 1)>> \o split[Drop(s, IndexOf[s, sep]), sep]

\* array[k] with a zero-based index: undefined past the end
At(arr, k) == IF k + 1 <= Len(arr) THEN Str(arr[k + 1]) ELSE Undefined

\* ToString of the values parseFloat can be handed here
JSToString(x) ==
    IF x.t = "string" THEN x.v
    ELSE IF x.t = "undefined" THEN <<"u","n","d","e","f","i","n","e","d">>
    ELSE <<"n","u","l","l">>

TrimLeft[s \in JSString] ==
    IF s # <<>> /\ s[1] \in WhiteSpaceChars THEN TrimLeft[Drop(s, 1)] ELSE s

\* the longest run of decimal digits at the start of s
DigitRun[s \in JSString] ==
    IF s # <<>> /\ IsDigit(s[1]) THEN <<s[1]>> \o DigitRun[Drop(s, 1)] ELSE <<>>

DigitsValue[ds \in JSString] ==
    IF ds = <<>> THEN 0
    ELSE 10 * DigitsValue[Take(ds, Len(ds) - 1)] + DigitVal(ds[Len(ds)])

Pow10[e \in Int] == IF e <= 0 THEN 1 ELSE 10 * Pow10[e - 1]

\* n / 10^k in lowest decimal terms
Normalize[neg \in BOOLEAN, n \in Nat, k \in Int] ==
    IF k < 0 THEN Num(neg, n * Pow10[0 - k], 0)
    ELSE IF n = 0 THEN Num(neg, 0, 0)
    ELSE IF k > 0 /\ n % 10 = 0 THEN Normalize[neg, n \div 10, k - 1]
    ELSE Num(neg, n, k)

sInfinity == <<"I","n","f","i","n","i","t","y">>

\* the exponent part at the start of s: its value, 0 when there is none
Exponent[s \in JSString] ==
    IF s = <<>> \/ s[1] \notin {"e", "E"} THEN 0
    ELSE IF Len(s) >= 2 /\ s[2] = "-" THEN 0 - DigitsValue[DigitRun[Drop(s, 2)]]
    ELSE IF Len(s) >= 2 /\ s[2] = "+" THEN DigitsValue[DigitRun[Drop(s, 2)]]
    ELSE DigitsValue[DigitRun[Drop(s, 1)]]

\* an unsigned decimal literal at the start of s: digits ip, then the rest
\* after the digits
Fraction[neg \in BOOLEAN, ip \in JSString, rest \in JSString] ==
    IF rest # <<>> /\ rest[1] = "."
    THEN IF ip = <<>> /\ DigitRun[Drop(rest, 1)] = <<>> THEN NaN
         ELSE Normalize[neg, DigitsValue[ip \o DigitRun[Drop(rest, 1)]],
                        Len(DigitRun[Drop(rest, 1)])
                          - Exponent[Drop(rest, 1 + Len(DigitRun[Drop(rest, 1)]))]]
    ELSE IF ip = <<>> THEN NaN
         ELSE Normalize[neg, DigitsValue[ip], 0 - Exponent[rest]]

Unsigned[neg \in BOOLEAN, s \in JSString] ==
    IF startsWith(s, sInfinity) THEN Infinity(neg)
    ELSE Fraction[neg, DigitRun[s], Drop(s, Len(DigitRun[s]))]

Signed[s \in JSString] ==
    IF s # <<>> /\ s[1] \in {"+", "-"}
    THEN Unsigned[s[1] = "-", Drop(s, 1)]
    ELSE Unsigned[FALSE, s]

\* the global parseFloat: the value of the longest prefix of the trimmed
\* string that is a decimal literal (sign, digits, fraction, exponent, or
\* Infinity), NaN when there is none
parseFloat(x) == Signed[TrimLeft[JSToString(x)]]

\* the global isNaN
isNaN(a) == a.t = "NaN"

\* unary minus
Negate(a) == IF a.t = "NaN" THEN a ELSE [a EXCEPT !.neg = ~a.neg]

----------------------------------------------------------------------------
(* String constants of the script and the requests the model sends *)

sExit == <<"e","x","i","t">>
sRaise == <<"r","a","i","s","e">>
sLower == <<"l","o","w","e","r">>
sProcessed == <<"C","o","m","m","a","n","d"," ","p","r","o","c","e","s","s","e","d",":"," ">>
sInvalid == <<"I","n","v","a","l","i","d"," ","e","n","d","p","o","i","n","t"," ","o","r"," ","n","o"," ","c","o","m","m","a","n","d"," ","p","r","o","v","i","d","e","d",".">>
\* the control page, a fixed asset
html == <<"<!DOCTYPE html><html>...</html>">>

pRoot == <<"/">>
pSend == <<"/","s","e","n","d">>
pUnknown == <<"/","u","n","k","n","o","w","n","-","p","a","t","h">>
pSendSub == <<"/","s","e","n","d","/","x">>
pSendFoo == <<"/","s","e","n","d","f","o","o">>

sCommandEq == <<"c","o","m","m","a","n","d","=">>

\* the command texts requests carry: the buttons of the page, the malformed
\* commands, other letter cases and other numbers
Commands ==
    {<<"e","x","i","t">>,
     <<"E","x","i","t">>,
     <<"E","X","I","T">>,
     <<"r","a","i","s","e"," ","1",".","0">>,
     <<"r","a","i","s","e"," ","0",".","1">>,
     <<"r","a","i","s","e"," ","0",".","0","1">>,
     <<"l","o","w","e","r"," ","1",".","0">>,
     <<"l","o","w","e","r"," ","0",".","1">>,
     <<"l","o","w","e","r"," ","0",".","0","1">>,
     <<"r","a","i","s","e">>,
     <<"r","a","i","s","e"," ","a","b","c">>,
     <<"j","u","m","p"," ","5">>,
     <<>>,
     <<"R","A","I","S","E"," ","1",".","0">>,
     <<"L","o","w","e","r"," ","0",".","1">>,
     <<"r","a","i","s","e"," ","-","1">>,
     <<"l","o","w","e","r"," ","-","1">>,
     <<"r","a","i","s","e"," ","I","n","f","i","n","i","t","y">>,
     <<"r","a","i","s","e"," ","N","a","N">>,
     <<"r","a","i","s","e"," ","0">>}

\* query strings that are not "command=<text>"
OtherQueries ==
    {<<"f","o","o">>,
     <<"x","=","e","x","i","t">>,
     <<"x","=","1","&","c","o","m","m","a","n","d","=","e","x","i","t">>,
     <<"c","o","m","m","a","n","d","=","r","a","i","s","e"," ","1",".","0","&","x","=","2">>,
     <<"c","o","m","m","a","n","d","=","a","=","b">>,
     <<"c","o","m","m","a","n","d","=","e","x","i","t","&","x","=","1">>,
     <<"x","=","r","a","i","s","e"," ","1",".","0">>}

\* URI.getQuery(): null without a "?", the decoded text after it otherwise
Queries ==
    {Null, Str(<<>>)} \cup {Str(sCommandEq \o c) : c \in Commands}
                      \cup {Str(q) : q \in OtherQueries}

\* the requests of the model: any query on /send, a few on the other paths
\* of the /send context, none on the paths outside it
Requests ==
    {[path |-> pSend, query |-> q] : q \in Queries}
        \cup {[path |-> p, query |-> q] :
                 p \in {pSendSub, pSendFoo},
                 q \in {Null, Str(sCommandEq \o sExit),
                        Str(sCommandEq \o <<"r","a","i","s","e"," ","1",".","0">>)}}
        \cup {[path |-> p, query |-> Null] : p \in {pRoot, pUnknown}}

\* what the host application offers when moveNozzle runs: a nozzle that
\* moves, no default head, no default nozzle, no location of the nozzle, or
\* a nozzle whose moveTo throws
NozzleStates == {"ok", "noHead", "noNozzle", "noLocation", "moveFails"}

V011 == "0.1.1"
V021 == "0.2.1"
Versions == {V011, V021}

----------------------------------------------------------------------------
(* The functions of the script *)

\* moveNozzle without the tests of the nozzle and of its location
moveNozzle_NoNullTests(v, amount, nz) ==
    IF v = V021 /\ isNaN(amount) THEN <<>> ELSE <<amount>>

\* moveNozzle(amount): the Z offsets of the nozzle.moveTo calls it makes.
\* Whatever is thrown inside it, by the missing head or by moveTo, is caught
\* and printed.
moveNozzle(v, amount, nz) ==
    IF v = V021 /\ isNaN(amount) THEN <<>>
    ELSE IF nz \in {"noHead", "noNozzle", "noLocation"} THEN <<>>
    ELSE <<amount>>

\* processCommand passing the parameter of "lower" on without negating it
processCommand_LowerNotNegated(v, command, nz) ==
    IF command = Str(sExit)
    THEN [stop |-> TRUE, moves |-> <<>>, threw |-> FALSE]
    ELSE IF command.t # "string"
    THEN [stop |-> FALSE, moves |-> <<>>, threw |-> TRUE]
    ELSE LET parts == split[command.v, " "]
             baseCommand == toLowerCase[parts[1]]
             parameter == parseFloat(At(parts, 1))
         IN  IF baseCommand = sRaise \/ baseCommand = sLower
             THEN [stop |-> FALSE, moves |-> moveNozzle(v, parameter, nz),
                   threw |-> FALSE]
             ELSE [stop |-> FALSE, moves |-> <<>>, threw |-> FALSE]

\* processCommand comparing the verb as it was typed
processCommand_VerbAsTyped(v, command, nz) ==
    IF command = Str(sExit)
    THEN [stop |-> TRUE, moves |-> <<>>, threw |-> FALSE]
    ELSE IF command.t # "string"
    THEN [stop |-> FALSE, moves |-> <<>>, threw |-> TRUE]
    ELSE LET parts == split[command.v, " "]
             baseCommand == parts[1]
             parameter == parseFloat(At(parts, 1))
         IN  IF baseCommand = sRaise
             THEN [stop |-> FALSE, moves |-> moveNozzle(v, parameter, nz),
                   threw |-> FALSE]
             ELSE IF baseCommand = sLower
             THEN [stop |-> FALSE,
                   moves |-> moveNozzle(v, Negate(parameter), nz),
                   threw |-> FALSE]
             ELSE [stop |-> FALSE, moves |-> <<>>, threw |-> FALSE]

\* processCommand stopping the server on a command it does not know
processCommand_UnknownStops(v, command, nz) ==
    IF command = Str(sExit)
    THEN [stop |-> TRUE, moves |-> <<>>, threw |-> FALSE]
    ELSE IF command.t # "string"
    THEN [stop |-> FALSE, moves |-> <<>>, threw |-> TRUE]
    ELSE LET parts == split[command.v, " "]
             baseCommand == toLowerCase[parts[1]]
             parameter == parseFloat(At(parts, 1))
         IN  IF baseCommand = sRaise
             THEN [stop |-> FALSE, moves |-> moveNozzle(v, parameter, nz),
                   threw |-> FALSE]
             ELSE IF baseCommand = sLower
             THEN [stop |-> FALSE,
                   moves |-> moveNozzle(v, Negate(parameter), nz),
                   threw |-> FALSE]
             ELSE [stop |-> TRUE, moves |-> <<>>, threw |-> FALSE]

\* processCommand(command): stop is the call of stopServer, moves the
\* moveTo calls, threw a TypeError leaving the function
processCommand(v, command, nz) ==
    IF command = Str(sExit)
    THEN [stop |-> TRUE, moves |-> <<>>, threw |-> FALSE]
    ELSE IF command.t # "string"
    THEN [stop |-> FALSE, moves |-> <<>>, threw |-> TRUE]
    ELSE LET parts == split[command.v, " "]
             baseCommand == toLowerCase[parts[1]]
             parameter == parseFloat(At(parts, 1))
         IN  IF baseCommand = sRaise
             THEN [stop |-> FALSE, moves |-> moveNozzle(v, parameter, nz),
                   threw |-> FALSE]
             ELSE IF baseCommand = sLower
             THEN [stop |-> FALSE,
                   moves |-> moveNozzle(v, Negate(parameter), nz),
                   threw |-> FALSE]
             ELSE [stop |-> FALSE, moves |-> <<>>, threw |-> FALSE]

\* a query string as a condition: null and "" are false
Truthy(q) == q.t = "string" /\ q.v # <<>>

NotCalled == [t |-> "not called"]
NoResponse == [status |-> 0, body |-> <<>>]

\* CommandHandler.handle after the first-connection block.  delivered: the
\* connection of the exchange is still open when the response is written
\* (server.stop(0) closes the connections of the server it stops).
CommandHandlerHandle(v, path, query, nz, delivered) ==
    IF path = pSend /\ Truthy(query)
    THEN LET command == At(split[query.v, "="], 1)
             r == processCommand(v, command, nz)
             sent == ~r.threw /\ (r.stop => delivered)
         IN  [handler |-> "CommandHandler", command |-> command,
              stop |-> r.stop, moves |-> r.moves, threw |-> ~sent,
              response |-> IF sent
                           THEN [status |-> 200,
                                 body |-> sProcessed \o JSToString(command)]
                           ELSE NoResponse]
    ELSE [handler |-> "CommandHandler", command |-> NotCalled,
          stop |-> FALSE, moves |-> <<>>, threw |-> FALSE,
          response |-> [status |-> 200, body |-> sInvalid]]

\* FileHandler.handle after the first-connection block
FileHandlerHandle ==
    [handler |-> "FileHandler", command |-> NotCalled,
     stop |-> FALSE, moves |-> <<>>, threw |-> FALSE,
     response |-> [status |-> 200, body |-> html]]

\* the contexts startServer creates
Contexts == {[path |-> pRoot, handler |-> "FileHandler"],
             [path |-> pSend, handler |-> "CommandHandler"]}

\* a server that hands every request to the first context that matches
findContext_RootFirst(path) ==
    CHOOSE c \in Contexts :
        /\ startsWith(path, c.path)
        /\ \A d \in Contexts :
               startsWith(path, d.path) => Len(c.path) <= Len(d.path)

\* HttpServer's choice of the context of a request: the context whose path
\* is the longest prefix of the request path
findContext(path) ==
    CHOOSE c \in Contexts :
        /\ startsWith(path, c.path)
        /\ \A d \in Contexts :
               startsWith(path, d.path) => Len(d.path) <= Len(c.path)

\* the exchange as the server of version v handles it
Dispatch(v, path, query, nz, delivered) ==
    IF findContext(path).handler = "CommandHandler"
    THEN CommandHandlerHandle(v, path, query, nz, delivered)
    ELSE FileHandlerHandle

AllExchanges ==
    [req : Requests, nz : NozzleStates, delivered : BOOLEAN, released : BOOLEAN]

\* Dispatch tabulated: what each exchange causes in a server of version v
Outcome ==
    [v \in Versions |->
        [x \in AllExchanges |->
            Dispatch(v, x.req.path, x.req.query, x.nz, x.delivered)]]

\* The exchanges a server of version v is sent: the state of the nozzle
\* varies where the command reaches nozzle.moveTo, the fate of the
\* connection and of the port where the command stops the server.
Exchanges ==
    [v \in Versions |->
        {x \in AllExchanges :
            LET r == Outcome[v][[x EXCEPT !.nz = "ok", !.delivered = TRUE]]
            IN  /\ r.moves = <<>> => x.nz = "ok"
                /\ ~r.stop => (x.delivered /\ x.released)}]

\* commands of buttons of the control page
ButtonCommands ==
    {<<"e","x","i","t">>,
     <<"r","a","i","s","e"," ","1",".","0">>,
     <<"l","o","w","e","r"," ","0",".","0","1">>}

\* The exchanges of a browser that loads the control page and presses its
\* buttons, the machine having a nozzle.
PageExchanges ==
    {x \in AllExchanges :
        /\ x.nz = "ok"
        /\ \/ x.req = [path |-> pRoot, query |-> Null]
           \/ \E c \in ButtonCommands :
                 x.req = [path |-> pSend, query |-> Str(sCommandEq \o c)]
        /\ x.req.query # Str(sCommandEq \o sExit)
              => (x.delivered /\ x.released)}

----------------------------------------------------------------------------
(* The state *)

Inst == 1..NInst
\* a process that is not this script and may hold the port
Foreign == NInst + 1

VARIABLES
    pc,                 \* where each run of the script is
    version,            \* the version of the script each run executes
    server,             \* the variable server and the state of its listener
    bound,              \* the holders of the TCP port in the operating system
    probe,              \* what the startup probe of the run met
    slept,              \* the run has paid the grace wait
    startError,         \* startServer has printed "Error starting server"
    isFirstConnection,  \* the variable isFirstConnection (0.2.1)
    qrDialogFrame,      \* the variable qrDialogFrame (0.2.1)
    closeCalls,         \* how often closeQRCodeDialog was called (0.2.1)
    last                \* the exchange handled last, with what it caused

vars == <<pc, version, server, bound, probe, slept, startError,
          isFirstConnection, qrDialogFrame, closeCalls,
                   last>>

NoExchange ==
    [inst |-> 0, path |-> <<>>, query |-> Null, nozzle |-> "ok",
     handler |-> "none", command |-> NotCalled, moves |-> <<>>,
     response |-> NoResponse, threw |-> FALSE]

Init ==
    /\ pc = [i \in Inst |-> "idle"]
    /\ version = [i \in Inst |-> "none"]
    /\ server = [i \in Inst |-> "null"]
    /\ bound \in {{}, {Foreign}}
    /\ probe = [i \in Inst |-> "none"]
    /\ slept = [i \in Inst |-> FALSE]
    /\ startError = [i \in Inst |-> FALSE]
    /\ isFirstConnection = [i \in Inst |-> TRUE]
    /\ qrDialogFrame = [i \in Inst |-> "null"]
    /\ closeCalls = [i \in Inst |-> 0]
    /\ last = NoExchange

Listening == {k \in Inst : server[k] = "listening"}

\* a stopped listener whose port the operating system has not released yet
Releasing == {k \in Inst : server[k] = "stopped" /\ k \in bound}

----------------------------------------------------------------------------
(* The operations *)

\* stopServer with the call of server.stop left out
stopServer_KeepsListening(i, released) ==
    UNCHANGED <<server, bound>>

\* stopServer(): server.stop(0) closes the listening socket; released tells
\* whether the operating system has let go of the port when stop returns
stopServer(i, released) ==
    /\ server' = IF server[i] # "null"
                 THEN [server EXCEPT ![i] = "stopped"] ELSE server
    /\ bound' = IF server[i] # "null" /\ released THEN bound \ {i} ELSE bound

\* closeQRCodeDialog(): disposes of the dialog if there is one
closeQRCodeDialog(i) ==
    /\ qrDialogFrame' = [qrDialogFrame EXCEPT ![i] = "null"]
    /\ closeCalls' = [closeCalls EXCEPT
                         ![i] = IF @ < MaxCloseCalls THEN @ + 1 ELSE @]

\* an exchange whose first-connection block leaves isFirstConnection alone
Serve_FlagKept(i, x) ==
    LET r == Outcome[version[i]][x]
    IN  /\ IF version[i] = V021 /\ isFirstConnection[i]
           THEN /\ UNCHANGED isFirstConnection
                /\ closeQRCodeDialog(i)
           ELSE UNCHANGED <<isFirstConnection, qrDialogFrame, closeCalls>>
        /\ IF r.stop
           THEN stopServer(i, x.released)
           ELSE UNCHANGED <<server, bound>>
        /\ last' = [inst |-> i, path |-> x.req.path, query |-> x.req.query,
                    nozzle |-> x.nz, handler |-> r.handler,
                    command |-> r.command, moves |-> r.moves,
                    response |-> r.response, threw |-> r.threw]

\* One exchange handled by instance i: the first-connection block (0.2.1),
\* then the handler of the context of the request.
Serve(i, x) ==
    LET r == Outcome[version[i]][x]
    IN  /\ IF version[i] = V021 /\ isFirstConnection[i]
           THEN /\ isFirstConnection' = [isFirstConnection EXCEPT ![i] = FALSE]
                /\ closeQRCodeDialog(i)
           ELSE UNCHANGED <<isFirstConnection, qrDialogFrame, closeCalls>>
        /\ IF r.stop
           THEN stopServer(i, x.released)
           ELSE UNCHANGED <<server, bound>>
        /\ last' = [inst |-> i, path |-> x.req.path, query |-> x.req.query,
                    nozzle |-> x.nz, handler |-> r.handler,
                    command |-> r.command, moves |-> r.moves,
                    response |-> r.response, threw |-> r.threw]

\* The script is run: the globals are initialised.  Runs are numbered in
\* the order they start.
RunScript(i, v) ==
    /\ pc[i] = "idle"
    /\ \A j \in Inst : j < i => pc[j] # "idle"
    /\ pc' = [pc EXCEPT ![i] = "probe"]
    /\ version' = [version EXCEPT ![i] = v]
    /\ UNCHANGED <<server, bound, probe, slept, startError,
                   isFirstConnection, qrDialogFrame, closeCalls,
                   last>>

ExitRequest == [path |-> pSend, query |-> Str(sCommandEq \o sExit)]

\* the probe's exchange, its connection closed by server.stop(0) before the
\* response is written or not, the port released at once or not
ProbeExchanges == {x \in AllExchanges : x.req = ExitRequest /\ x.nz = "ok"}

\* The startup probe reaches the listening instance k, which handles
\* /send?command=exit.  openStream returns when the response is delivered
\* and throws when the connection was closed first; the catch skips the
\* sleep.
ProbeLive(i) ==
    /\ pc[i] = "probe"
    /\ \E k \in Listening, x \in ProbeExchanges :
          /\ Serve(k, x)
          /\ pc' = [pc EXCEPT ![i] = IF x.delivered THEN "sleep" ELSE "bind"]
    /\ probe' = [probe EXCEPT ![i] = "live"]
    /\ UNCHANGED <<version, slept, startError>>

\* The port is held by a foreign process: it answers the probe or not.
ProbeForeign(i) ==
    /\ pc[i] = "probe"
    /\ Listening = {}
    /\ Foreign \in bound
    /\ \E answered \in BOOLEAN :
          pc' = [pc EXCEPT ![i] = IF answered THEN "sleep" ELSE "bind"]
    /\ probe' = [probe EXCEPT ![i] = "foreign"]
    /\ UNCHANGED <<version, server, bound, slept, startError,
                   isFirstConnection, qrDialogFrame, closeCalls,
                   last>>

\* a probe whose failure does not skip the sleep
ProbeRefused_Sleeps(i) ==
    /\ pc[i] = "probe"
    /\ Listening = {}
    /\ Foreign \notin bound
    /\ pc' = [pc EXCEPT ![i] = "sleep"]
    /\ probe' = [probe EXCEPT ![i] = "refused"]
    /\ UNCHANGED <<version, server, bound, slept, startError,
                   isFirstConnection, qrDialogFrame, closeCalls,
                   last>>

\* Nothing accepts the connection: openStream throws, the catch logs it.
ProbeRefused(i) ==
    /\ pc[i] = "probe"
    /\ Listening = {}
    /\ Foreign \notin bound
    /\ pc' = [pc EXCEPT ![i] = "bind"]
    /\ probe' = [probe EXCEPT ![i] = "refused"]
    /\ UNCHANGED <<version, server, bound, slept, startError,
                   isFirstConnection, qrDialogFrame, closeCalls,
                   last>>

\* Thread.sleep: the grace wait.  Under normal timing the operating system
\* releases the port of a stopped listener before the wait is over.
Sleep(i) ==
    /\ pc[i] = "sleep"
    /\ Releasing = {}
    /\ pc' = [pc EXCEPT ![i] = "bind"]
    /\ slept' = [slept EXCEPT ![i] = TRUE]
    /\ UNCHANGED <<version, server, bound, probe, startError,
                   isFirstConnection, qrDialogFrame, closeCalls,
                   last>>

\* a bind that does not fail on a port in use
CanBind_Always == TRUE

\* HttpServer.create binds the port, or throws when the port is in use
CanBind == bound = {}

\* startServer with an empty catch block
startServer_Silent(i) ==
    /\ pc[i] = "bind"
    /\ pc' = [pc EXCEPT ![i] = "done"]
    /\ IF CanBind
       THEN /\ server' = [server EXCEPT ![i] = "listening"]
            /\ bound' = bound \cup {i}
            /\ qrDialogFrame' = IF version[i] = V021
                                THEN [qrDialogFrame EXCEPT ![i] = "frame"]
                                ELSE qrDialogFrame
       ELSE UNCHANGED <<server, bound, qrDialogFrame>>
    /\ UNCHANGED <<version, probe, slept, startError, isFirstConnection,
                   closeCalls, last>>

\* startServer(): bind, create the contexts, start, show the QR dialog
\* (0.2.1); a failure is caught and printed.  The script ends after it.
startServer(i) ==
    /\ pc[i] = "bind"
    /\ pc' = [pc EXCEPT ![i] = "done"]
    /\ IF CanBind
       THEN /\ server' = [server EXCEPT ![i] = "listening"]
            /\ bound' = bound \cup {i}
            /\ qrDialogFrame' = IF version[i] = V021
                                THEN [qrDialogFrame EXCEPT ![i] = "frame"]
                                ELSE qrDialogFrame
            /\ UNCHANGED startError
       ELSE /\ startError' = [startError EXCEPT ![i] = TRUE]
            /\ UNCHANGED <<server, bound, qrDialogFrame>>
    /\ UNCHANGED <<version, probe, slept, isFirstConnection, closeCalls, last>>

\* A browser uses the control page of the listening instance.
HandlePageRequest(i) ==
    /\ server[i] = "listening"
    /\ \E x \in PageExchanges :
          Serve(i, x)
    /\ UNCHANGED <<pc, version, probe, slept, startError>>

\* Any client sends any request to the listening instance.
HandleRequest(i) ==
    /\ server[i] = "listening"
    /\ \E x \in Exchanges[version[i]] :
          Serve(i, x)
    /\ UNCHANGED <<pc, version, probe, slept, startError>>

\* The operating system releases the port of a stopped listener.
ReleasePort(i) ==
    /\ i \in Releasing
    /\ bound' = bound \ {i}
    /\ UNCHANGED <<pc, version, server, probe, slept, startError,
                   isFirstConnection, qrDialogFrame, closeCalls,
                   last>>

\* The Close button of the QR dialog.
CloseButton(i) ==
    /\ qrDialogFrame[i] = "frame"
    /\ qrDialogFrame' = [qrDialogFrame EXCEPT ![i] = "null"]
    /\ UNCHANGED <<pc, version, server, bound, probe, slept, startError,
                   isFirstConnection, closeCalls, last>>

\* A foreign process takes the free port, or gives it up.
ForeignBind ==
    /\ bound = {}
    /\ bound' = {Foreign}
    /\ UNCHANGED <<pc, version, server, probe, slept, startError,
                   isFirstConnection, qrDialogFrame, closeCalls,
                   last>>

ForeignRelease ==
    /\ Foreign \in bound
    /\ bound' = bound \ {Foreign}
    /\ UNCHANGED <<pc, version, server, probe, slept, startError,
                   isFirstConnection, qrDialogFrame, closeCalls,
                   last>>

\* The life of the instances: runs of the script, the pages of the
\* browsers, the port.
Next ==
    \/ \E i \in Inst, v \in Versions : RunScript(i, v)
    \/ \E i \in Inst : ProbeLive(i)
    \/ \E i \in Inst : ProbeForeign(i)
    \/ \E i \in Inst : ProbeRefused(i)
    \/ \E i \in Inst : Sleep(i)
    \/ \E i \in Inst : startServer(i)
    \/ \E i \in Inst : HandlePageRequest(i)
    \/ \E i \in Inst : ReleasePort(i)
    \/ \E i \in Inst : CloseButton(i)
    \/ ForeignBind
    \/ ForeignRelease

Spec == Init /\ [][Next]_vars

\* One instance of either version that has started on the free port: the
\* state of Spec after RunScript, ProbeRefused and startServer.
InitServe ==
    /\ \E v \in Versions :
          /\ version = [i \in Inst |-> IF i = 1 THEN v ELSE "none"]
          /\ qrDialogFrame =
                 [i \in Inst |-> IF i = 1 /\ v = V021 THEN "frame" ELSE "null"]
    /\ pc = [i \in Inst |-> IF i = 1 THEN "done" ELSE "idle"]
    /\ server = [i \in Inst |-> IF i = 1 THEN "listening" ELSE "null"]
    /\ bound = {1}
    /\ probe = [i \in Inst |-> IF i = 1 THEN "refused" ELSE "none"]
    /\ slept = [i \in Inst |-> FALSE]
    /\ startError = [i \in Inst |-> FALSE]
    /\ isFirstConnection = [i \in Inst |-> TRUE]
    /\ closeCalls = [i \in Inst |-> 0]
    /\ last = NoExchange

\* The requests of any client to that instance.
NextServe ==
    \/ \E i \in Inst : HandleRequest(i)
    \/ \E i \in Inst : ReleasePort(i)
    \/ \E i \in Inst : CloseButton(i)

SpecServe == InitServe /\ [][NextServe]_vars

----------------------------------------------------------------------------
(* The claims *)

SendQuery(c) == Str(sCommandEq \o c)

\* C1: when an instance is started while another is Listening, its probe
\* stops that one and, once its startup has finished, its own bind has not
\* failed with address-in-use: it became the listener of the port.
C1_IdempotentRestart ==
    \A j \in Inst :
        (probe[j] = "live" /\ pc[j] = "done" /\ Foreign \notin bound)
            => (~startError[j] /\ server[j] # "null")

\* C2: a server that has processed "exit" is Stopped; a Stopped instance
\* stays Stopped and handles no further exchange.
C2_ExitIsTerminal ==
    /\ [](last.command = Str(sExit) => server[last.inst] = "stopped")
    /\ [][\A i \in Inst :
              server[i] = "stopped"
                  => /\ server'[i] = "stopped"
                     /\ last'.inst = i => last' = last]_vars

\* an instance was stopped by "exit" and the next instance serves a move
\* on the same port
C2_Witness ==
    \E i, j \in Inst :
        /\ server[i] = "stopped"
        /\ server[j] = "listening"
        /\ last.inst = j
        /\ last.moves # <<>>

MalformedCommands ==
    {<<"r","a","i","s","e">>,
     <<"r","a","i","s","e"," ","a","b","c">>,
     <<"j","u","m","p"," ","5">>,
     <<>>}

\* C3: a /send request carrying "raise", "raise abc", "jump 5" or "" causes
\* no call of nozzle.moveTo and leaves the server Listening.
C3_MalformedNoMove ==
    (last.path = pSend /\ last.query \in {SendQuery(c) : c \in MalformedCommands})
        => (last.moves = <<>> /\ server[last.inst] = "listening")

\* the Z offsets the buttons stand for
ButtonMoves ==
    {<<(<<"r","a","i","s","e"," ","1",".","0">>), Num(FALSE, 1, 0)>>,
     <<(<<"r","a","i","s","e"," ","0",".","1">>), Num(FALSE, 1, 1)>>,
     <<(<<"r","a","i","s","e"," ","0",".","0","1">>), Num(FALSE, 1, 2)>>,
     <<(<<"l","o","w","e","r"," ","1",".","0">>), Num(TRUE, 1, 0)>>,
     <<(<<"l","o","w","e","r"," ","0",".","1">>), Num(TRUE, 1, 1)>>,
     <<(<<"l","o","w","e","r"," ","0",".","0","1">>), Num(TRUE, 1, 2)>>}

\* C4: "raise x" and "lower x", x in {1.0, 0.1, 0.01}, on /send with a
\* configured nozzle: exactly one moveTo, by +x for raise and -x for lower,
\* and the server stays Listening.
C4_ButtonsMoveOnce ==
    \A m \in ButtonMoves :
        (last.path = pSend /\ last.query = SendQuery(m[1]) /\ last.nozzle = "ok")
            => (last.moves = <<m[2]>> /\ server[last.inst] = "listening")

\* "lower 0.01" has moved the nozzle by -0.01
C4_Witness ==
    /\ last.path = pSend
    /\ last.query = SendQuery(<<"l","o","w","e","r"," ","0",".","0","1">>)
    /\ last.nozzle = "ok"
    /\ last.moves = <<Num(TRUE, 1, 2)>>
    /\ server[last.inst] = "listening"

InvalidAck == [status |-> 200, body |-> sInvalid]

HasCommandParam(q) ==
    /\ Truthy(q)
    /\ \E k \in 1..Len(split[q.v, "&"]) :
          startsWith(split[q.v, "&"][k], sCommandEq)

\* C6: the /send handler ends without an exception and sends a 200
\* response whatever the query; without a "command" parameter the response
\* is the "invalid request" acknowledgement and processCommand is not called.
C6_SendNeverThrows ==
    last.handler = "CommandHandler"
        => /\ ~last.threw
           /\ last.response.status = 200
           /\ ~HasCommandParam(last.query)
                  => (last.response = InvalidAck /\ last.command = NotCalled)

\* C7: an instance whose probe was processed by a live prior instance has
\* paid the grace wait when it attempts to bind.
C7_GraceWaitPaid ==
    \A j \in Inst :
        (probe[j] = "live" /\ pc[j] \in {"bind", "done"}) => slept[j]

\* C8: a startup whose probe found nothing listening skips the grace wait
\* and reaches Listening.
C8_NoPriorReachesListening ==
    \A i \in Inst :
        (probe[i] = "refused" /\ pc[i] = "done")
            => (~slept[i] /\ server[i] # "null")

\* C8 amended: a startup whose probe found nothing listening absorbs the
\* failure and skips the grace wait; it never blocks in Probing and always
\* comes to the bind attempt, which reaches Listening when the port is free
\* at that moment and ends without a listener otherwise.
C8_NoPriorProceedsToBind ==
    /\ [](\A i \in Inst :
              /\ pc[i] = "probe"
                    => ENABLED (ProbeLive(i) \/ ProbeForeign(i) \/ ProbeRefused(i))
              /\ probe[i] = "refused"
                    => /\ ~slept[i]
                       /\ pc[i] \in {"bind", "done"}
                       /\ pc[i] = "bind" => ENABLED startServer(i))
    /\ [][\A i \in Inst :
              (probe[i] = "refused" /\ pc[i] = "bind" /\ pc'[i] = "done")
                  => server'[i] = IF bound = {} THEN "listening" ELSE "null"]_vars

\* a startup that met no listener is Listening without having slept
C8_Witness ==
    \E i \in Inst :
        /\ probe[i] = "refused"
        /\ pc[i] = "done"
        /\ ~slept[i]
        /\ server[i] = "listening"

\* C9: at most one instance holds a listener bound to the port.
C9_AtMostOneBound ==
    /\ Cardinality(bound) <= 1
    /\ Cardinality(Listening) <= 1
    /\ Listening \subseteq bound

\* a second instance has taken the port over from a stopped first one
C9_Witness ==
    \E i, j \in Inst :
        /\ server[i] = "stopped"
        /\ server[j] = "listening"
        /\ bound = {j}

\* C10: the script never completes normally while no listener of this
\* instance was bound.
C10_NoNormalEndUnbound ==
    \A i \in Inst : pc[i] = "done" => server[i] # "null"

\* C10 amended: a failed bind is caught in startServer and printed as
\* "Error starting server"; the script then completes normally without a
\* listener, and that printed message is all that tells of the failure.
C10_BindFailurePrinted ==
    \A i \in Inst : startError[i] <=> (pc[i] = "done" /\ server[i] = "null")

\* a run has ended with the error printed and no listener
C10_Witness ==
    \E i \in Inst : pc[i] = "done" /\ server[i] = "null" /\ startError[i]

\* C11: a Listening server becomes Stopped only in an exchange of the /send
\* handler in which processCommand was handed exactly "exit"; no raise,
\* lower, malformed or unknown command, no request to "/" and no failure of
\* the nozzle stops it.
C11_StoppedOnlyByExit ==
    [][\A i \in Inst :
          (server[i] = "listening" /\ server'[i] # "listening")
              => /\ last'.inst = i
                 /\ last'.handler = "CommandHandler"
                 /\ last'.command = Str(sExit)]_vars

\* the server has been stopped by "exit" after it had handled other requests
C11_Witness ==
    /\ server[1] = "stopped"
    /\ last.inst = 1
    /\ last.command = Str(sExit)
    /\ ~isFirstConnection[1] \/ version[1] = V011

\* a command text processCommand rejects: a verb other than raise and lower,
\* or a parameter that is missing or not a number
RejectedCommand(c) ==
    /\ c.t = "string"
    /\ c # Str(sExit)
    /\ LET parts == split[c.v, " "]
       IN  \/ toLowerCase[parts[1]] \notin {sRaise, sLower}
           \/ isNaN(parseFloat(At(parts, 1)))

\* C12: the acknowledgement of a rejected command (unknown verb, missing or
\* non-numeric parameter) tells that it was rejected: it is not the
\* "Command processed: <command>" acknowledgement of an executed command.
C12_RejectedAckDistinct ==
    (last.handler = "CommandHandler" /\ RejectedCommand(last.command))
        => ~startsWith(last.response.body, sProcessed)

\* the magnitude a command text carries: parseFloat of its second word
Magnitude(c) == parseFloat(At(split[c.v, " "], 1))

\* C13: whenever an exchange has called nozzle.moveTo, the magnitude of its
\* command parsed as a finite non-negative number; "raise -1", "lower -1",
\* "raise Infinity" and "raise NaN" cause no call.
C13_MagnitudeFiniteNonNegative ==
    last.moves # <<>>
        => /\ Magnitude(last.command).t = "number"
           /\ ~Magnitude(last.command).neg

\* a command text with its first word in lower case
LowerVerb(s) ==
    LET k == IndexOf[s, " "]
    IN  IF k = 0 THEN toLowerCase[s]
        ELSE toLowerCase[Take(s, k - 1)] \o Drop(s, k - 1)

\* C14: on /send, "exit" stops the server; "Exit" and "EXIT" do not: the
\* server stays Listening, moveTo is not called and the request is answered.
\* "RAISE 1.0" and "Lower 0.1" move the nozzle by +1.0 and -0.1, and every
\* raise or lower command causes the moveTo calls that the same command
\* with its verb in lower case causes.
C14_CaseSensitivity ==
    (last.handler = "CommandHandler" /\ last.path = pSend)
        => /\ last.query = SendQuery(sExit) => server[last.inst] = "stopped"
           /\ last.query \in {SendQuery(<<"E","x","i","t">>),
                               SendQuery(<<"E","X","I","T">>)}
                  => /\ server[last.inst] = "listening"
                     /\ last.moves = <<>>
                     /\ last.response.status = 200
           /\ (last.query = SendQuery(<<"R","A","I","S","E"," ","1",".","0">>)
                   /\ last.nozzle = "ok")
                  => last.moves = <<Num(FALSE, 1, 0)>>
           /\ (last.query = SendQuery(<<"L","o","w","e","r"," ","0",".","1">>)
                   /\ last.nozzle = "ok")
                  => last.moves = <<Num(TRUE, 1, 1)>>
           /\ (last.command.t = "string" /\ toLowerCase[last.command.v] # sExit)
                  => last.moves =
                         processCommand(version[last.inst],
                                        Str(LowerVerb(last.command.v)),
                                        last.nozzle).moves

\* "RAISE 1.0" has moved the nozzle by +1.0
C14_Witness ==
    /\ last.path = pSend
    /\ last.query = SendQuery(<<"R","A","I","S","E"," ","1",".","0">>)
    /\ last.moves = <<Num(FALSE, 1, 0)>>
    /\ server[last.inst] = "listening"

\* the host offers no nozzle to move
NoMotion == {"noHead", "noNozzle", "noLocation"}

\* C15: a raise or lower command handled while there is no default nozzle,
\* or while its location cannot be read, is dropped: moveTo is not called,
\* the server stays Listening, and the request is answered 200 with the
\* acknowledgement of the command.
C15_NoNozzleDropped ==
    (last.handler = "CommandHandler" /\ last.nozzle \in NoMotion)
        => /\ last.moves = <<>>
           /\ ~last.threw
           /\ server[last.inst] = "listening"
           /\ last.response =
                  [status |-> 200,
                   body |-> sProcessed \o JSToString(last.command)]

\* "raise 1.0" was answered while there was no default nozzle
C15_Witness ==
    /\ last.path = pSend
    /\ last.query = SendQuery(<<"r","a","i","s","e"," ","1",".","0">>)
    /\ last.nozzle = "noNozzle"
    /\ last.moves = <<>>
    /\ last.response.status = 200
    /\ server[last.inst] = "listening"

\* the value of the first parameter named "command" of a query string
CommandValue(q) ==
    LET params == split[q, "&"]
        k == CHOOSE j \in 1..Len(params) :
                 /\ startsWith(params[j], sCommandEq)
                 /\ \A h \in 1..(j - 1) : ~startsWith(params[h], sCommandEq)
    IN  Drop(params[k], Len(sCommandEq))

\* C16: on /send, processCommand is handed exactly the value of the query
\* parameter named "command", wherever that parameter stands and whatever
\* "=" its value holds; without such a parameter it is not called.
C16_CommandParamExtracted ==
    (last.handler = "CommandHandler" /\ last.path = pSend)
        => last.command =
               IF HasCommandParam(last.query)
               THEN Str(CommandValue(last.query.v))
               ELSE NotCalled

\* C17: in every instance closeQRCodeDialog is called at most once, in the
\* first exchange the instance handles, whichever handler takes it.
\* isFirstConnection is true until then, false from then on, and a later
\* exchange neither calls closeQRCodeDialog nor touches the dialog.
C17_DialogClosedOnce ==
    /\ [](\A i \in Inst :
              /\ closeCalls[i] <= 1
              /\ closeCalls[i] = 1 <=> ~isFirstConnection[i]
              /\ (version[i] = V021 /\ isFirstConnection[i]) => last.inst # i)
    /\ [][\A i \in Inst :
              /\ ~isFirstConnection[i]
                    => /\ ~isFirstConnection'[i]
                       /\ closeCalls'[i] = closeCalls[i]
                       /\ last' # last => qrDialogFrame'[i] = qrDialogFrame[i]
              /\ (version[i] = V021 /\ isFirstConnection[i] /\ last'.inst = i)
                    => /\ ~isFirstConnection'[i]
                       /\ closeCalls'[i] = 1
                       /\ qrDialogFrame'[i] = "null"]_vars

\* the first request of an instance has closed its dialog, and the instance
\* has gone on serving
C17_Witness ==
    \E i \in Inst :
        /\ version[i] = V021
        /\ pc[i] = "done"
        /\ closeCalls[i] = 1
        /\ ~isFirstConnection[i]
        /\ qrDialogFrame[i] = "null"
        /\ last.inst = i
        /\ last.moves # <<>>
        /\ server[i] = "listening"

====
